---- MODULE Spec2Model ----
(***************************************************************************)
(* The mango-tree classifier front end (React component                   *)
(* TeachableMachineImageClassifier) as a state machine.  The repository    *)
(* holds three revisions of the component:                                 *)
(*   "App"      src/src/App.js        model selection, error banner        *)
(*   "part_000" src/unnamed/part_000  first revision, no error state       *)
(*   "part_001" src/unnamed/part_001  App plus the cloud-storage panel     *)
(* The variable variant fixes which one runs.  Every async handler is cut  *)
(* at its awaits: one action per continuation.  The state updates of a     *)
(* continuation are rendered before the next event is handled, so the      *)
(* closures of the handlers (imageResults in clearAllResults, model and    *)
(* modelType in loadModel) hold the current state.                         *)
(* Spec is the component under its events; SpecExif runs the pure          *)
(* extractGPSFromExif / convertDMSToDD on one file with any combination    *)
(* of the four GPS tags.                                                   *)
(***************************************************************************)
EXTENDS Integers, Sequences, FiniteSets, TLC

\* ---------------------------------------------------------------- bounds
MaxFiles == 3
MaxUrls == 3
MaxPairs == 2
MaxPending == 1
MaxPendingApp == 2
MaxCloudRecords == 1
MaxBulkRecords == 2
MaxCloudAttempts == 3

\* ------------------------------------------------------ program constants
MinutesPerDegree == 60
SecondsPerMinute == 60
SecondsPerDegree == 3600
MangoThreshold == 5
ProbabilityOne == 10

VARIABLES
    variant,              \* which revision of the component runs
    model,                \* useState(null): "null" | "real" | "mock"
    modelType,            \* 'teachable_machine' | 'mobilenet'
    librariesLoaded,
    isModelLoading,
    isProcessing,
    isCheckingDuplicates,
    error,                \* the error banner's text, '' when none
    imageResults,         \* the record store
    duplicatePairs,       \* the pair list
    pc,                   \* position of the one handleFileUpload call
    files,                \* files of the selection not yet processed
    newResults,           \* handleFileUpload's local newResults
    loadedModel,          \* handleFileUpload's local loadedModel
    pending,              \* /save-decision requests in flight
    backendIds,           \* identifiers whose imageId the backend has been sent
    nextUrl,              \* next blob URL of URL.createObjectURL
    lastId,               \* the last value of Date.now() + Math.random()
    revoked,              \* URL -> number of URL.revokeObjectURL calls
    lastOp,               \* the last continuation that ran: its name, the
                          \* resolution action and the identifier it removed
    selected,             \* event.target.files of the upload in progress
    request,              \* locations of the /check-proximity body in flight
    loadFailed,           \* tmImage.load was rejected in the upload in progress
    everLoaded,           \* tmImage.load has resolved in this session
    exif,                 \* the EXIF tags of the file given to extractGPSFromExif
    gps,                  \* what extractGPSFromExif resolved to
    resultPredictions,    \* result.predictions of the record of one card
    classified,           \* that list as classifyImage returned it
    badge,                \* isMangoDetected of the card at its last render
    isBulkSaving,         \* part_001: useState(false)
    bulkPc,               \* part_001: position of the one bulkSaveToCloud call
    uploadProgress,       \* part_001: the entries [id, status] of the state object
    cloudStorageRecords,  \* part_001: the imageId of each cloud record
    cloudUploads,         \* part_001: the uploadImageToCloud calls in flight
    cloudTimers,          \* part_001: the setTimeout callbacks not yet run
    cloudAttempts,        \* part_001: number of uploadImageToCloud calls so far
    lastDecision          \* the request the last continuation answered with
                          \* response.ok, and whether a record was removed

\* The variables of the results card and of the cloud-storage panel.
renderVars == <<resultPredictions, classified, badge>>
cloudVars == <<isBulkSaving, bulkPc, uploadProgress, cloudStorageRecords,
               cloudUploads, cloudTimers, cloudAttempts>>

vars == <<variant, model, modelType, librariesLoaded, isModelLoading,
          isProcessing, isCheckingDuplicates, error, imageResults,
          duplicatePairs, pc, files, newResults, loadedModel, pending,
          backendIds, nextUrl, lastId, revoked, lastOp, selected, request,
          loadFailed, everLoaded, exif, gps, resultPredictions, classified,
          badge,
          isBulkSaving, bulkPc, uploadProgress, cloudStorageRecords,
          cloudUploads, cloudTimers, cloudAttempts, lastDecision>>

Variants == {"App", "part_000", "part_001"}
ModelTypes == {"teachable_machine", "mobilenet"}
Actions == {"save_both", "keep_first_remove_second", "remove_first_keep_second"}

\* part_000 declares no error state: its failures go to console or alert.
HasErrorState == variant # "part_000"

\* String(x) of a numeric identifier.
String(n) == ToString(n)

Urls == 1..MaxUrls
PairIds == 1..MaxPairs

\* A selected file: its MIME type starts with image/ or not, and its EXIF
\* block carries the four GPS tags or not.
FileKinds == [image : BOOLEAN, gps : BOOLEAN]
FileLists == UNION {[1..n -> FileKinds] : n \in 1..MaxFiles}

Op(name, action, id) == [op |-> name, action |-> action, id |-> id]

\* The last continuation was not a successful /save-decision.
NoDecision ==
    [pairId |-> 0, action |-> "", imageId1 |-> "", imageId2 |-> "",
     removed |-> FALSE]

\* ------------------------------------------------------- error messages
MsgLibraries == "Libraries not loaded yet"
MsgFallback == "Failed to load the model. Using fallback model for demo purposes."
MsgBackendStatus == "Backend error: 500"
MsgBackendDown == "Failed to connect to backend. Make sure it's running on localhost:8000"
MsgProcessing == "Error processing images: Failed to load image"
MsgDecisionStatus == "Failed to save decision: 500"
MsgDecisionDown == "Failed to save decision: Failed to fetch"
MsgUploadStatus == "Upload failed: Upload failed: 500"
MsgUploadDown == "Upload failed: Failed to fetch"
MsgBulkStatus == "Bulk save failed: Bulk save failed: 500"
MsgBulkDown == "Bulk save failed: Failed to fetch"
MsgBulkSaved == "Successfully saved 1 approved images to cloud storage!"
MsgBulkNone == "No approved images found to save. Make decisions on duplicate pairs first."

SetError(msg) == IF HasErrorState THEN msg ELSE error

\* ------------------------------------------------------------ the store
\* The filter with its comparison inverted (=== for !==).
ResultsAfterRemoveInverted(prev, id) ==
    SelectSeq(prev, LAMBDA r : String(r.id) = id)

\* removeImageResult: prev.filter(result => String(result.id) !== String(id))
ResultsAfterRemove(prev, id) ==
    SelectSeq(prev, LAMBDA r : String(r.id) # id)

\* removeImageResult: prev.find(...) and URL.revokeObjectURL(toRemove.imageUrl)
RevokedAfterRemove(prev, rv, id) ==
    LET hits == {i \in DOMAIN prev : String(prev[i].id) = id} IN
    IF hits = {} THEN rv
    ELSE LET first == CHOOSE i \in hits : \A j \in hits : i <= j IN
         [rv EXCEPT ![prev[first].imageUrl] = @ + 1]

\* removeImageResult: the pairs that reference id are dropped
PairsAfterRemove(prev, id) ==
    SelectSeq(prev, LAMBDA p : p.imageId1 # id /\ p.imageId2 # id)

\* A forEach that starts at the second record.
RevokedAfterClearSkipsFirst(results, rv) ==
    [u \in DOMAIN rv |->
        rv[u] + Cardinality({i \in DOMAIN results :
                                i > 1 /\ results[i].imageUrl = u})]

\* clearAllResults: imageResults.forEach(result => URL.revokeObjectURL(...))
RevokedAfterClear(results, rv) ==
    [u \in DOMAIN rv |->
        rv[u] + Cardinality({i \in DOMAIN results : results[i].imageUrl = u})]

\* The pair filter with its comparison inverted (=== for !==).
PairsWithoutPairIdInverted(prev, pairId) ==
    SelectSeq(prev, LAMBDA p : p.pairId = pairId)

\* handleDuplicateAction, response.ok: prev.filter(pair => pair.pairId !== pairId)
PairsWithoutPairId(prev, pairId) ==
    SelectSeq(prev, LAMBDA p : p.pairId # pairId)

\* The two remove actions with their arguments exchanged.
DecisionRemovesSwapped(req) ==
    IF req.action = "keep_first_remove_second" THEN req.imageId1
    ELSE IF req.action = "remove_first_keep_second" THEN req.imageId2
    ELSE ""

\* handleDuplicateAction, response.ok: the identifier handed to
\* removeImageResult, "" when the action removes nothing
DecisionRemoves(req) ==
    IF req.action = "keep_first_remove_second" THEN req.imageId2
    ELSE IF req.action = "remove_first_keep_second" THEN req.imageId1
    ELSE ""

\* sendImagesToBackend (App.js, part_001): if (data.similar_pairs) set it
PairsAfterProximityApp(prev, data) ==
    IF data.present THEN data.similar_pairs ELSE prev

\* sendMangoLocationsToBackend (part_000): duplicateData.similar_pairs || []
PairsAfterProximity000(prev, data) ==
    IF data.present THEN data.similar_pairs ELSE <<>>

PairsAfterProximity(prev, data) ==
    IF variant = "part_000" THEN PairsAfterProximity000(prev, data)
    ELSE PairsAfterProximityApp(prev, data)

\* A request that carries every record of the batch.
ImagesWithLocationAll(images) == images

\* images.filter(img => img.location !== null)
ImagesWithLocation(images) == SelectSeq(images, LAMBDA r : r.location)

\* locationData: the imageId of each entry, String(img.id)
LocationData(images) ==
    [i \in DOMAIN ImagesWithLocation(images) |->
        String(ImagesWithLocation(images)[i].id)]

\* The identifiers whose String the request carries.
SentIds(images) ==
    {ImagesWithLocation(images)[i].id : i \in DOMAIN ImagesWithLocation(images)}

\* The bodies a successful /check-proximity response can carry: no
\* similar_pairs field, or up to MaxPairs pairs over two different imageIds
\* the backend has been sent.  pairIds are the backend's keys: distinct,
\* listed in increasing order.  Each pair is listed with its imageIds in one
\* orientation only: exchanging imageId1 and imageId2 exchanges the two
\* remove actions and nothing else.
CandidatePairs(ids) ==
    {[pairId |-> k, imageId1 |-> String(ab[1]), imageId2 |-> String(ab[2])] :
        k \in PairIds, ab \in {x \in ids \X ids : x[1] < x[2]}}

PairLists(ids) ==
    UNION {{s \in [1..n -> CandidatePairs(ids)] :
               \A i, j \in 1..n : i < j => s[i].pairId < s[j].pairId} :
           n \in 0..MaxPairs}

ResponseBodies(ids) ==
    {[present |-> FALSE, similar_pairs |-> <<>>]}
    \cup {[present |-> TRUE, similar_pairs |-> s] : s \in PairLists(ids)}

\* ------------------------------------------------------------- EXIF
\* Decimal degrees are kept as exact fractions in lowest terms; the
\* rounding of the double arithmetic is left out.
RECURSIVE Gcd(_, _)
Gcd(a, b) == IF b = 0 THEN a ELSE Gcd(b, a % b)

Abs(n) == IF n < 0 THEN -n ELSE n

Frac(n, d) ==
    LET g == Gcd(Abs(n), d) IN [num |-> n \div g, den |-> d \div g]

FracAdd(x, y) == Frac(x.num * y.den + y.num * x.den, x.den * y.den)

FracTimes(x, k) == Frac(x.num * k, x.den)

\* A conversion that tests the northern and western hemispheres.
ConvertDMSToDDWrongHemisphere(degrees, minutes, seconds, direction) ==
    LET dd == FracAdd(FracAdd(Frac(degrees, 1),
                              Frac(minutes, MinutesPerDegree)),
                      Frac(seconds, MinutesPerDegree * SecondsPerMinute)) IN
    IF direction = "N" \/ direction = "W" THEN FracTimes(dd, -1) ELSE dd

\* convertDMSToDD: degrees + minutes/60 + seconds/(60*60), times -1 for the
\* directions 'S' and 'W'
ConvertDMSToDD(degrees, minutes, seconds, direction) ==
    LET dd == FracAdd(FracAdd(Frac(degrees, 1),
                              Frac(minutes, MinutesPerDegree)),
                      Frac(seconds, MinutesPerDegree * SecondsPerMinute)) IN
    IF direction = "S" \/ direction = "W" THEN FracTimes(dd, -1) ELSE dd

\* convertDMSToDD(dms, ref) of part_000: dms[0] + dms[1]/60 + dms[2]/3600
ConvertDMSToDD000(dms, ref) ==
    LET dd == FracAdd(FracAdd(Frac(dms[1], 1),
                              Frac(dms[2], MinutesPerDegree)),
                      Frac(dms[3], SecondsPerDegree)) IN
    IF ref = "S" \/ ref = "W" THEN FracTimes(dd, -1) ELSE dd

\* What EXIF.getTag returns: undefined for a tag the file does not carry,
\* else three numbers (degrees, minutes, seconds) or a direction letter.
Undefined == [defined |-> FALSE]
Tag(v) == [defined |-> TRUE, value |-> v]
DegreeValues == {0, 10, 179}
MinuteValues == {0, 30, 59}
SecondValues == {0, 1, 59}
DmsValues == {<<d, m, sec>> : d \in DegreeValues, m \in MinuteValues,
                              sec \in SecondValues}
Directions == {"N", "S", "E", "W"}
ExifFiles ==
    [GPSLatitude : {Undefined} \cup {Tag(v) : v \in DmsValues},
     GPSLongitude : {Undefined} \cup {Tag(v) : v \in DmsValues},
     GPSLatitudeRef : {Undefined} \cup {Tag(v) : v \in Directions},
     GPSLongitudeRef : {Undefined} \cup {Tag(v) : v \in Directions}]

\* No file has been handed to extractGPSFromExif.
NoExif ==
    [GPSLatitude |-> Undefined, GPSLongitude |-> Undefined,
     GPSLatitudeRef |-> Undefined, GPSLongitudeRef |-> Undefined]

\* The truth value of a tag in the condition of an if.
Truthy(tag) == tag.defined

\* The outcomes of the promise of extractGPSFromExif.
Pending == [settled |-> "pending"]
Resolved(v) == [settled |-> "resolved", value |-> v]
Null == [null |-> TRUE]
Coordinates(lat, lon) == [null |-> FALSE, latitude |-> lat, longitude |-> lon]

\* A test that leaves GPSLongitudeRef out.
GPSFromExifThreeTags(tags) ==
    LET lat == tags.GPSLatitude
        lon == tags.GPSLongitude
        latRef == tags.GPSLatitudeRef
        lonRef == tags.GPSLongitudeRef IN
    IF Truthy(lat) /\ Truthy(lon) /\ Truthy(latRef)
    THEN Resolved(Coordinates(
             ConvertDMSToDD(lat.value[1], lat.value[2], lat.value[3], "N"),
             ConvertDMSToDD(lon.value[1], lon.value[2], lon.value[3], "E")))
    ELSE Resolved(Null)

\* extractGPSFromExif, the callback of EXIF.getData: the promise's outcome.
\* No statement of the callback throws for tags of these shapes, so the
\* catch of App.js is never entered and part_000, which has none, resolves
\* as well.
GPSFromExif(tags) ==
    LET lat == tags.GPSLatitude
        lon == tags.GPSLongitude
        latRef == tags.GPSLatitudeRef
        lonRef == tags.GPSLongitudeRef IN
    IF Truthy(lat) /\ Truthy(lon) /\ Truthy(latRef) /\ Truthy(lonRef)
    THEN IF variant = "part_000"
         THEN Resolved(Coordinates(ConvertDMSToDD000(lat.value, latRef.value),
                                   ConvertDMSToDD000(lon.value, lonRef.value)))
         ELSE Resolved(Coordinates(
                  ConvertDMSToDD(lat.value[1], lat.value[2], lat.value[3],
                                 latRef.value),
                  ConvertDMSToDD(lon.value[1], lon.value[2], lon.value[3],
                                 lonRef.value)))
    ELSE Resolved(Null)

\* A test that gives up only when both images are missing.
PairRenderedEitherImage(pair) ==
    \/ \E i \in DOMAIN imageResults : String(imageResults[i].id) = pair.imageId1
    \/ \E i \in DOMAIN imageResults : String(imageResults[i].id) = pair.imageId2

\* The pair is rendered with its buttons: both images are found.
PairRendered(pair) ==
    /\ \E i \in DOMAIN imageResults : String(imageResults[i].id) = pair.imageId1
    /\ \E i \in DOMAIN imageResults : String(imageResults[i].id) = pair.imageId2

\* ------------------------------------------------------- the results grid
\* timestamp: new Date().toLocaleTimeString(), read in the statement that
\* reads Date.now() for the identifier: a time of day ("11:13:05 AM")
\* with no date part.  The clock is taken to move on by a second or more
\* between two different identifiers.
LocaleTimeString(t) == [hasDate |-> FALSE, time |-> t]
Timestamp(r) == LocaleTimeString(r.id)

\* new Date(string): the time value, NaN (Invalid Date) for a string the
\* parser finds no date in.
NaN == [nan |-> TRUE]
Number(n) == [nan |-> FALSE, value |-> n]
NewDate(str) == IF str.hasDate THEN Number(str.time) ELSE NaN

\* x - y on numbers: NaN when either is.
Minus(x, y) == IF x.nan \/ y.nan THEN NaN ELSE Number(x.value - y.value)

\* The comparator of the grid: new Date(b.timestamp) - new Date(a.timestamp)
CompareTimestamps(a, b) == Minus(NewDate(Timestamp(b)), NewDate(Timestamp(a)))

\* Array.prototype.sort: a comparator result of NaN counts as +0, and the
\* sort is stable.  One element is inserted from the right.
SortCompare(a, b) ==
    IF CompareTimestamps(a, b).nan THEN 0 ELSE CompareTimestamps(a, b).value

RECURSIVE InsertFromRight(_, _)
InsertFromRight(sorted, x) ==
    IF sorted = <<>> THEN <<x>>
    ELSE IF SortCompare(sorted[Len(sorted)], x) > 0
    THEN Append(InsertFromRight(SubSeq(sorted, 1, Len(sorted) - 1), x),
                sorted[Len(sorted)])
    ELSE Append(sorted, x)

RECURSIVE Sorted(_)
Sorted(seq) ==
    IF seq = <<>> THEN <<>>
    ELSE InsertFromRight(Sorted(SubSeq(seq, 1, Len(seq) - 1)), seq[Len(seq)])

\* The cards of the results grid, in the order they are rendered:
\* [...imageResults].sort(...)
Displayed == Sorted(imageResults)

\* ------------------------------------------------------------------ Init
\* The component after its first render and the checkLibraries effect.
InitComponent ==
    /\ variant \in Variants
    /\ model = "null"
    /\ modelType = "teachable_machine"
    /\ librariesLoaded = TRUE
    /\ isModelLoading = FALSE
    /\ isProcessing = FALSE
    /\ isCheckingDuplicates = FALSE
    /\ error = ""
    /\ imageResults = <<>>
    /\ duplicatePairs = <<>>
    /\ pc = "idle"
    /\ files = <<>>
    /\ newResults = <<>>
    /\ loadedModel = "null"
    /\ pending = {}
    /\ backendIds = {}
    /\ nextUrl = 1
    /\ lastId = 0
    /\ revoked = [u \in Urls |-> 0]
    /\ lastOp = Op("init", "", "")
    /\ selected = <<>>
    /\ request = <<>>
    /\ loadFailed = FALSE
    /\ everLoaded = FALSE
    /\ lastDecision = NoDecision

\* No card is looked at.
InitRender ==
    /\ resultPredictions = <<>>
    /\ classified = <<>>
    /\ badge = "unrendered"

\* The cloud-storage panel after loadCloudStorageRecords found no record.
InitCloud ==
    /\ isBulkSaving = FALSE
    /\ bulkPc = "idle"
    /\ uploadProgress = {}
    /\ cloudStorageRecords = <<>>
    /\ cloudUploads = {}
    /\ cloudTimers = {}
    /\ cloudAttempts = 0

Init ==
    /\ InitComponent
    /\ exif = NoExif
    /\ gps = Pending
    /\ InitRender
    /\ InitCloud

\* The finally block of handleFileUpload, and the locals going out of scope.
UploadReturns ==
    /\ isProcessing' = FALSE
    /\ pc' = "idle"
    /\ files' = <<>>
    /\ newResults' = <<>>
    /\ loadedModel' = "null"
    /\ selected' = <<>>
    /\ request' = <<>>
    /\ loadFailed' = FALSE

\* A loadModel without its first line: the memoized model is never used.
HandleFileUploadNoMemo(fs) ==
    /\ ~isModelLoading /\ ~isProcessing /\ librariesLoaded
    /\ pc = "idle"
    /\ nextUrl + Len(fs) <= MaxUrls + 1
    /\ lastOp' = Op("upload", "", "")
    /\ lastDecision' = NoDecision
    /\ UNCHANGED <<variant, exif, gps, renderVars, cloudVars, everLoaded,
                   model, modelType,
                   librariesLoaded, isCheckingDuplicates, imageResults,
                   duplicatePairs, pending, backendIds, nextUrl, lastId,
                   revoked, request, loadFailed>>
    /\ isProcessing' = TRUE
    /\ files' = fs
    /\ selected' = fs
    /\ newResults' = <<>>
    /\ IF variant # "part_000" /\ modelType = "mobilenet"
       THEN /\ error' = ""
            /\ loadedModel' = "mobilenet"
            /\ pc' = "files"
            /\ UNCHANGED isModelLoading
       ELSE /\ error' = SetError("")
            /\ isModelLoading' = TRUE
            /\ pc' = "loading"
            /\ UNCHANGED loadedModel

\* --------------------------------------------------------- handleFileUpload
\* The change event of the file input, up to the first await that waits.
HandleFileUpload(fs) ==
    /\ ~isModelLoading /\ ~isProcessing /\ librariesLoaded
    /\ pc = "idle"
    /\ nextUrl + Len(fs) <= MaxUrls + 1
    /\ lastOp' = Op("upload", "", "")
    /\ lastDecision' = NoDecision
    /\ UNCHANGED <<variant, exif, gps, renderVars, cloudVars, everLoaded,
                   model, modelType, librariesLoaded,
                   isCheckingDuplicates, imageResults, duplicatePairs,
                   pending, backendIds, nextUrl, lastId, revoked>>
    /\ IF variant # "part_000" /\ modelType = "mobilenet"
       THEN /\ isProcessing' = TRUE
            /\ error' = ""
            /\ loadedModel' = "mobilenet"
            /\ pc' = "files"
            /\ files' = fs
            /\ selected' = fs
            /\ newResults' = <<>>
            /\ UNCHANGED <<request, loadFailed>>
            /\ UNCHANGED isModelLoading
       ELSE IF model # "null"
       THEN /\ isProcessing' = TRUE
            /\ error' = SetError("")
            /\ loadedModel' = model
            /\ pc' = "files"
            /\ files' = fs
            /\ selected' = fs
            /\ newResults' = <<>>
            /\ UNCHANGED <<request, loadFailed>>
            /\ UNCHANGED isModelLoading
       ELSE IF variant # "part_000" /\ ~librariesLoaded
       THEN /\ error' = MsgLibraries
            /\ UploadReturns
            /\ UNCHANGED isModelLoading
       ELSE /\ isProcessing' = TRUE
            /\ error' = SetError("")
            /\ isModelLoading' = TRUE
            /\ pc' = "loading"
            /\ files' = fs
            /\ selected' = fs
            /\ newResults' = <<>>
            /\ UNCHANGED <<request, loadFailed>>
            /\ UNCHANGED loadedModel

\* loadModel: tmImage.load resolved.
LoadModelOk ==
    /\ pc = "loading"
    /\ model' = "real"
    /\ loadedModel' = "real"
    /\ isModelLoading' = FALSE
    /\ pc' = "files"
    /\ lastOp' = Op("loadOk", "", "")
    /\ lastDecision' = NoDecision
    /\ everLoaded' = TRUE
    /\ UNCHANGED <<selected, request, loadFailed>>
    /\ UNCHANGED <<variant, exif, gps, renderVars, cloudVars,
                   modelType, librariesLoaded, isProcessing,
                   isCheckingDuplicates, error, imageResults, duplicatePairs,
                   files, newResults, pending, backendIds, nextUrl, lastId, revoked>>

\* loadModel: tmImage.load rejected.  App.js and part_001 install the mock
\* model and go on; part_000 alerts, returns null and the upload returns.
LoadModelFail ==
    /\ pc = "loading"
    /\ isModelLoading' = FALSE
    /\ lastOp' = Op("loadFail", "", "")
    /\ lastDecision' = NoDecision
    /\ UNCHANGED <<variant, exif, gps, renderVars, cloudVars, everLoaded,
                   modelType, librariesLoaded, isCheckingDuplicates,
                   imageResults, duplicatePairs, pending, backendIds, nextUrl, lastId,
                   revoked>>
    /\ IF variant = "part_000"
       THEN /\ UploadReturns
            /\ UNCHANGED <<model, error>>
       ELSE /\ error' = MsgFallback
            /\ model' = "mock"
            /\ loadedModel' = "mock"
            /\ pc' = "files"
            /\ loadFailed' = TRUE
            /\ UNCHANGED <<isProcessing, files, newResults, selected, request>>

\* A check that posts whatever the filter leaves, nothing included.
SendImagesToBackendUnguarded(images) ==
    /\ isCheckingDuplicates' = TRUE
    /\ backendIds' = backendIds \cup SentIds(images)
    /\ pc' = "proximity"
    /\ files' = <<>>
    /\ newResults' = images
    /\ request' = LocationData(images)
    /\ UNCHANGED <<isProcessing, loadedModel, selected, loadFailed>>

\* sendImagesToBackend up to its fetch, then (when it returns at once) the
\* finally block of handleFileUpload.
SendImagesToBackend(images) ==
    IF Len(ImagesWithLocation(images)) = 0
    THEN /\ UploadReturns
         /\ UNCHANGED <<isCheckingDuplicates, backendIds>>
    ELSE /\ isCheckingDuplicates' = TRUE
         /\ backendIds' = backendIds \cup SentIds(images)
         /\ pc' = "proximity"
         /\ files' = <<>>
         /\ newResults' = images
         /\ request' = LocationData(images)
         /\ UNCHANGED <<isProcessing, loadedModel, selected, loadFailed>>

\* A setImageResults that puts the new batch in front: [...newResults, ...prev].
AfterFilePrepends(results) ==
    IF Tail(files) # <<>>
    THEN /\ files' = Tail(files)
         /\ newResults' = results
         /\ UNCHANGED <<imageResults, isProcessing, isCheckingDuplicates,
                        backendIds, pc, loadedModel, selected, request,
                        loadFailed>>
    ELSE /\ imageResults' = results \o imageResults
         /\ IF Len(results) > 0
            THEN SendImagesToBackend(results)
            ELSE /\ UploadReturns
                 /\ UNCHANGED <<isCheckingDuplicates, backendIds>>

\* After one file of the for loop: the next iteration, or the code after
\* the loop (setImageResults and the proximity check).
AfterFile(results) ==
    IF Tail(files) # <<>>
    THEN /\ files' = Tail(files)
         /\ newResults' = results
         /\ UNCHANGED <<imageResults, isProcessing, isCheckingDuplicates,
                        backendIds, pc, loadedModel, selected, request,
                        loadFailed>>
    ELSE /\ imageResults' = imageResults \o results
         /\ IF Len(results) > 0
            THEN SendImagesToBackend(results)
            ELSE /\ UploadReturns
                 /\ UNCHANGED <<isCheckingDuplicates, backendIds>>

\* The values Date.now() + Math.random() can take at the next call: a new
\* one, or the value of the previous call (same clock tick, same fraction
\* at the 2^-12 resolution a double leaves beside a millisecond timestamp).
NewIds == IF lastId = 0 THEN {1} ELSE {lastId, lastId + 1}

\* One iteration of the for loop: createObjectURL, extractGPSFromExif, the
\* image decode and classifyImage.  decodes: img.onload fires (else
\* img.onerror); predictions: classifyImage returned a list (else null);
\* id: the value of Date.now() + Math.random().
ProcessFile(decodes, predictions, id) ==
    /\ pc = "files"
    /\ files # <<>>
    /\ predictions \/ loadedModel # "mock"
    /\ id \in NewIds
    /\ lastOp' = Op("file", "", "")
    /\ lastDecision' = NoDecision
    /\ UNCHANGED <<variant, exif, gps, renderVars, cloudVars, everLoaded,
                   model, modelType, librariesLoaded, isModelLoading,
                   duplicatePairs, pending, revoked>>
    /\ IF ~Head(files).image
       THEN /\ AfterFile(newResults)
            /\ UNCHANGED <<nextUrl, lastId, error>>
       ELSE /\ nextUrl' = nextUrl + 1
            /\ IF ~decodes
               THEN IF variant = "part_000"
                    THEN \* no onerror handler: the promise never settles
                         /\ pc' = "hung"
                         /\ UNCHANGED <<files, newResults, loadedModel,
                                        isProcessing, isCheckingDuplicates,
                                        imageResults, backendIds, error,
                                        lastId, selected, request,
                                        loadFailed>>
                    ELSE \* reject -> catch -> finally
                         /\ error' = MsgProcessing
                         /\ UploadReturns
                         /\ UNCHANGED <<isCheckingDuplicates, imageResults,
                                        backendIds, lastId>>
               ELSE /\ UNCHANGED error
                    /\ IF predictions
                       THEN /\ lastId' = id
                            /\ AfterFile(Append(newResults,
                                   [id |-> id, imageUrl |-> nextUrl,
                                    location |-> Head(files).gps]))
                       ELSE /\ UNCHANGED lastId
                            /\ AfterFile(newResults)

\* /check-proximity answered with an OK status and body data.
ProximityOk(data) ==
    /\ pc = "proximity"
    /\ duplicatePairs' = PairsAfterProximity(duplicatePairs, data)
    /\ isCheckingDuplicates' = FALSE
    /\ UploadReturns
    /\ lastOp' = Op("proximityOk", "", "")
    /\ lastDecision' = NoDecision
    /\ UNCHANGED <<variant, exif, gps, renderVars, cloudVars, everLoaded,
                   model, modelType, librariesLoaded, isModelLoading,
                   error, imageResults, pending, backendIds, nextUrl, lastId, revoked>>

\* A failure branch that also resets the pair list.
ProximityFailResetsPairs(msg) ==
    /\ pc = "proximity"
    /\ error' = SetError(msg)
    /\ duplicatePairs' = <<>>
    /\ isCheckingDuplicates' = FALSE
    /\ UploadReturns
    /\ lastOp' = Op("proximityFail", "", "")
    /\ lastDecision' = NoDecision
    /\ UNCHANGED <<variant, exif, gps, renderVars, cloudVars, everLoaded,
                   model, modelType, librariesLoaded, isModelLoading,
                   imageResults, pending, backendIds, nextUrl, lastId,
                   revoked>>

\* /check-proximity answered with a non-OK status, or fetch rejected.
ProximityFail(msg) ==
    /\ pc = "proximity"
    /\ error' = SetError(msg)
    /\ isCheckingDuplicates' = FALSE
    /\ UploadReturns
    /\ lastOp' = Op("proximityFail", "", "")
    /\ lastDecision' = NoDecision
    /\ UNCHANGED <<variant, exif, gps, renderVars, cloudVars, everLoaded,
                   model, modelType, librariesLoaded, isModelLoading,
                   imageResults, duplicatePairs, pending, backendIds, nextUrl, lastId,
                   revoked>>

\* ------------------------------------------------------ the other handlers
\* Radio buttons that are never disabled.
HandleModelTypeChangeAnyTime(newModelType) ==
    /\ variant # "part_000"
    /\ newModelType # modelType
    /\ modelType' = newModelType
    /\ model' = "null"
    /\ error' = ""
    /\ lastOp' = Op("modelType", "", "")
    /\ lastDecision' = NoDecision
    /\ UNCHANGED <<variant, exif, gps, renderVars, cloudVars, everLoaded,
                   selected, request, loadFailed,
                   librariesLoaded, isModelLoading, isProcessing,
                   isCheckingDuplicates, imageResults, duplicatePairs, pc,
                   files, newResults, loadedModel, pending, backendIds,
                   nextUrl, lastId, revoked>>

\* handleModelTypeChange: the change event of a radio button
HandleModelTypeChange(newModelType) ==
    /\ variant # "part_000"
    /\ ~isProcessing /\ librariesLoaded
    /\ newModelType # modelType
    /\ modelType' = newModelType
    /\ model' = "null"
    /\ error' = ""
    /\ lastOp' = Op("modelType", "", "")
    /\ lastDecision' = NoDecision
    /\ UNCHANGED <<variant, exif, gps, renderVars, cloudVars, everLoaded,
                   selected, request, loadFailed,
                   librariesLoaded, isModelLoading, isProcessing,
                   isCheckingDuplicates, imageResults, duplicatePairs, pc,
                   files, newResults, loadedModel, pending, backendIds,
                   nextUrl, lastId, revoked>>

\* removeImageResult(id), id already a string
RemoveImageResult(id) ==
    /\ imageResults' = ResultsAfterRemove(imageResults, id)
    /\ revoked' = RevokedAfterRemove(imageResults, revoked, id)
    /\ duplicatePairs' = PairsAfterRemove(duplicatePairs, id)

\* The X button of the card of record i.
ClickRemove(i) ==
    /\ i \in DOMAIN imageResults
    /\ RemoveImageResult(String(imageResults[i].id))
    /\ lastOp' = Op("remove", "", String(imageResults[i].id))
    /\ lastDecision' = NoDecision
    /\ UNCHANGED <<variant, exif, gps, renderVars, cloudVars, everLoaded,
                   selected, request, loadFailed,
                   model, modelType, librariesLoaded, isModelLoading,
                   isProcessing, isCheckingDuplicates, error, pc, files,
                   newResults, loadedModel, pending, backendIds, nextUrl, lastId>>

\* clearAllResults: the Clear All button, rendered when the store is not empty
ClearAllResults ==
    /\ Len(imageResults) > 0
    /\ revoked' = RevokedAfterClear(imageResults, revoked)
    /\ imageResults' = <<>>
    /\ duplicatePairs' = <<>>
    /\ error' = SetError("")
    /\ lastOp' = Op("clear", "", "")
    /\ lastDecision' = NoDecision
    /\ UNCHANGED <<variant, exif, gps, renderVars, cloudVars, everLoaded,
                   selected, request, loadFailed,
                   model, modelType, librariesLoaded, isModelLoading,
                   isProcessing, isCheckingDuplicates, pc, files, newResults,
                   loadedModel, pending, backendIds, nextUrl, lastId>>

\* handleDuplicateAction up to its fetch: a button of rendered pair i,
\* with fewer than limit requests in flight
HandleDuplicateActionUpTo(limit, i, action) ==
    /\ i \in DOMAIN duplicatePairs
    /\ PairRendered(duplicatePairs[i])
    /\ Cardinality(pending) < limit
    /\ LET req == [pairId |-> duplicatePairs[i].pairId, action |-> action,
                   imageId1 |-> duplicatePairs[i].imageId1,
                   imageId2 |-> duplicatePairs[i].imageId2] IN
       /\ req \notin pending
       /\ pending' = pending \cup {req}
       /\ lastOp' = Op("decide", action, "")
       /\ lastDecision' = NoDecision
    /\ UNCHANGED <<variant, exif, gps, renderVars, cloudVars, everLoaded,
                   selected, request, loadFailed,
                   model, modelType, librariesLoaded, isModelLoading,
                   isProcessing, isCheckingDuplicates, error, imageResults,
                   duplicatePairs, pc, files, newResults, loadedModel,
                   backendIds, nextUrl, lastId, revoked>>

\* handleDuplicateAction: /save-decision answered with an OK status
SaveDecisionOk(req) ==
    /\ req \in pending
    /\ pending' = pending \ {req}
    /\ IF DecisionRemoves(req) = ""
       THEN /\ duplicatePairs' = PairsWithoutPairId(duplicatePairs, req.pairId)
            /\ UNCHANGED <<imageResults, revoked>>
       ELSE /\ imageResults' = ResultsAfterRemove(imageResults, DecisionRemoves(req))
            /\ revoked' = RevokedAfterRemove(imageResults, revoked, DecisionRemoves(req))
            /\ duplicatePairs' =
                 PairsAfterRemove(PairsWithoutPairId(duplicatePairs, req.pairId),
                                  DecisionRemoves(req))
    /\ lastOp' = Op("decisionOk", req.action, DecisionRemoves(req))
    /\ lastDecision' =
         [pairId |-> req.pairId, action |-> req.action,
          imageId1 |-> req.imageId1, imageId2 |-> req.imageId2,
          removed |-> imageResults' # imageResults]
    /\ UNCHANGED <<variant, exif, gps, renderVars, cloudVars, everLoaded,
                   selected, request, loadFailed,
                   model, modelType, librariesLoaded, isModelLoading,
                   isProcessing, isCheckingDuplicates, error, pc, files,
                   newResults, loadedModel, backendIds, nextUrl, lastId>>

\* An optimistic handler: the pair is dropped whatever the answer.
SaveDecisionFailDropsPair(req, msg) ==
    /\ req \in pending
    /\ pending' = pending \ {req}
    /\ error' = SetError(msg)
    /\ duplicatePairs' = PairsWithoutPairId(duplicatePairs, req.pairId)
    /\ lastOp' = Op("decisionFail", req.action, "")
    /\ lastDecision' = NoDecision
    /\ UNCHANGED <<variant, exif, gps, renderVars, cloudVars, everLoaded,
                   selected, request, loadFailed,
                   model, modelType, librariesLoaded, isModelLoading,
                   isProcessing, isCheckingDuplicates, imageResults, pc, files,
                   newResults, loadedModel, backendIds, nextUrl, lastId,
                   revoked>>

\* handleDuplicateAction: /save-decision answered non-OK, or fetch rejected
SaveDecisionFail(req, msg) ==
    /\ req \in pending
    /\ pending' = pending \ {req}
    /\ error' = SetError(msg)
    /\ lastOp' = Op("decisionFail", req.action, "")
    /\ lastDecision' = NoDecision
    /\ UNCHANGED <<variant, exif, gps, renderVars, cloudVars, everLoaded,
                   selected, request, loadFailed,
                   model, modelType, librariesLoaded, isModelLoading,
                   isProcessing, isCheckingDuplicates, imageResults,
                   duplicatePairs, pc, files, newResults, loadedModel,
                   backendIds, nextUrl, lastId, revoked>>

HandleDuplicateAction(i, action) ==
    HandleDuplicateActionUpTo(MaxPending, i, action)

Next ==
    \/ \E fs \in FileLists : HandleFileUpload(fs)
    \/ LoadModelOk
    \/ LoadModelFail
    \/ \E d \in BOOLEAN, p \in BOOLEAN, id \in Urls : ProcessFile(d, p, id)
    \/ \E data \in ResponseBodies(backendIds) : ProximityOk(data)
    \/ \E msg \in {MsgBackendStatus, MsgBackendDown} : ProximityFail(msg)
    \/ \E t \in ModelTypes : HandleModelTypeChange(t)
    \/ \E i \in 1..MaxUrls : ClickRemove(i)
    \/ ClearAllResults
    \/ \E i \in 1..MaxPairs, a \in Actions : HandleDuplicateAction(i, a)
    \/ \E req \in pending : SaveDecisionOk(req)
    \/ \E req \in pending, msg \in {MsgDecisionStatus, MsgDecisionDown} :
          SaveDecisionFail(req, msg)

Spec == Init /\ [][Next]_vars

\* ------------------------------------- App.js with two decisions in flight
\* The resolution buttons stay enabled while /save-decision is awaited, so
\* a second request, for the same pair too, can be started before the
\* first is answered.
InitDecisions ==
    /\ Init
    /\ variant = "App"

NextDecisions ==
    \/ \E fs \in FileLists : HandleFileUpload(fs)
    \/ LoadModelOk
    \/ LoadModelFail
    \/ \E d \in BOOLEAN, p \in BOOLEAN, id \in Urls : ProcessFile(d, p, id)
    \/ \E data \in ResponseBodies(backendIds) : ProximityOk(data)
    \/ \E msg \in {MsgBackendStatus, MsgBackendDown} : ProximityFail(msg)
    \/ \E t \in ModelTypes : HandleModelTypeChange(t)
    \/ \E i \in 1..MaxUrls : ClickRemove(i)
    \/ ClearAllResults
    \/ \E i \in 1..MaxPairs, a \in Actions :
          HandleDuplicateActionUpTo(MaxPendingApp, i, a)
    \/ \E req \in pending : SaveDecisionOk(req)
    \/ \E req \in pending, msg \in {MsgDecisionStatus, MsgDecisionDown} :
          SaveDecisionFail(req, msg)

SpecDecisions == InitDecisions /\ [][NextDecisions]_vars

componentVars ==
    <<variant, model, modelType, librariesLoaded, isModelLoading,
      isProcessing, isCheckingDuplicates, error, imageResults,
      duplicatePairs, pc, files, newResults, loadedModel, pending,
      backendIds, nextUrl, lastId, revoked, lastOp, selected, request,
      loadFailed, everLoaded, lastDecision>>

\* ------------------------------------------ part_001: the cloud storage
\* uploadProgress[id], "none" for a key the object does not have
StatusOf(progress, id) ==
    IF \E e \in progress : e.id = id
    THEN (CHOOSE e \in progress : e.id = id).status
    ELSE "none"

\* prev => ({ ...prev, [result.id]: status })
WithStatus(progress, id, status) ==
    {e \in progress : e.id # id} \cup {[id |-> id, status |-> status]}

\* prev => { const updated = { ...prev }; delete updated[result.id]; ... }
WithoutStatus(progress, id) == {e \in progress : e.id # id}

\* cloudStorageRecords.some(record => String(record.imageId) === String(result.id))
IsAlreadyUploaded(id) == \E k \in DOMAIN cloudStorageRecords : cloudStorageRecords[k] = id

\* The cloud upload button of a card is enabled.
UploadButtonEnabled(id) ==
    /\ StatusOf(uploadProgress, id) # "uploading"
    /\ ~IsAlreadyUploaded(id)

\* A Bulk Save button that is never disabled.
BulkSaveButtonAlwaysEnabled == TRUE

\* disabled={isBulkSaving || duplicatePairs.length > 0}
BulkSaveButtonEnabled == ~isBulkSaving /\ Len(duplicatePairs) = 0

\* The variables the cloud handlers leave alone.
cloudFrame ==
    <<variant, exif, gps, renderVars, everLoaded, selected, request,
      loadFailed, model, modelType, librariesLoaded, isModelLoading,
      isProcessing, isCheckingDuplicates, imageResults, duplicatePairs, pc,
      files, newResults, loadedModel, pending, backendIds, nextUrl, lastId,
      revoked>>

\* The cloud button of the card of record i: uploadImageToCloud up to the
\* await of the image decode.  The button is rendered for a record with a
\* location only, so the first return of the handler is not taken.
UploadImageToCloud(i) ==
    /\ variant = "part_001"
    /\ i \in DOMAIN imageResults
    /\ imageResults[i].location
    /\ UploadButtonEnabled(String(imageResults[i].id))
    /\ cloudAttempts < MaxCloudAttempts
    /\ uploadProgress' =
          WithStatus(uploadProgress, String(imageResults[i].id), "uploading")
    /\ cloudUploads' = cloudUploads \cup
          {[attempt |-> cloudAttempts + 1, id |-> String(imageResults[i].id)]}
    /\ cloudAttempts' = cloudAttempts + 1
    /\ lastOp' = Op("cloudUpload", "", String(imageResults[i].id))
    /\ lastDecision' = NoDecision
    /\ UNCHANGED <<cloudFrame, error, isBulkSaving, bulkPc,
                   cloudStorageRecords, cloudTimers>>

\* The image decoded and /upload-image answered ok.
CloudUploadOk(call) ==
    /\ call \in cloudUploads
    /\ cloudUploads' = cloudUploads \ {call}
    /\ cloudStorageRecords' = Append(cloudStorageRecords, call.id)
    /\ uploadProgress' = WithStatus(uploadProgress, call.id, "success")
    /\ cloudTimers' = cloudTimers \cup
          {[kind |-> "status", attempt |-> call.attempt, id |-> call.id]}
    /\ lastOp' = Op("cloudUploadOk", "", call.id)
    /\ lastDecision' = NoDecision
    /\ UNCHANGED <<cloudFrame, error, isBulkSaving, bulkPc, cloudAttempts>>

\* The decode failed, the fetch was rejected or the answer was not ok.
CloudUploadFail(call, msg) ==
    /\ call \in cloudUploads
    /\ cloudUploads' = cloudUploads \ {call}
    /\ uploadProgress' = WithStatus(uploadProgress, call.id, "error")
    /\ error' = msg
    /\ cloudTimers' = cloudTimers \cup
          {[kind |-> "status", attempt |-> call.attempt, id |-> call.id]}
    /\ lastOp' = Op("cloudUploadFail", "", call.id)
    /\ lastDecision' = NoDecision
    /\ UNCHANGED <<cloudFrame, isBulkSaving, bulkPc, cloudStorageRecords,
                   cloudAttempts>>

\* A setTimeout callback runs: the status of the record is deleted, or the
\* message of a bulk save is cleared.
TimerFires(timer) ==
    /\ timer \in cloudTimers
    /\ cloudTimers' = cloudTimers \ {timer}
    /\ IF timer.kind = "status"
       THEN /\ uploadProgress' = WithoutStatus(uploadProgress, timer.id)
            /\ UNCHANGED error
       ELSE /\ error' = ""
            /\ UNCHANGED uploadProgress
    /\ lastOp' = Op("timer", timer.kind, timer.id)
    /\ lastDecision' = NoDecision
    /\ UNCHANGED <<cloudFrame, isBulkSaving, bulkPc, cloudStorageRecords,
                   cloudUploads, cloudAttempts>>

\* The Bulk Save Approved button: bulkSaveToCloud up to the await of
\* /bulk-save.
BulkSaveToCloud ==
    /\ variant = "part_001"
    /\ BulkSaveButtonEnabled
    /\ bulkPc = "idle"
    /\ isBulkSaving' = TRUE
    /\ bulkPc' = "saving"
    /\ lastOp' = Op("bulkSave", "", "")
    /\ lastDecision' = NoDecision
    /\ UNCHANGED <<cloudFrame, error, uploadProgress, cloudStorageRecords,
                   cloudUploads, cloudTimers, cloudAttempts>>

\* /bulk-save answered ok with saved_count > 0 (saved) or 0:
\* loadCloudStorageRecords is called and awaited.
BulkSaveOk(saved) ==
    /\ bulkPc = "saving"
    /\ bulkPc' = IF saved THEN "refreshingSaved" ELSE "refreshingNone"
    /\ lastOp' = Op("bulkSaveOk", "", "")
    /\ lastDecision' = NoDecision
    /\ UNCHANGED <<cloudFrame, error, isBulkSaving, uploadProgress,
                   cloudStorageRecords, cloudUploads, cloudTimers,
                   cloudAttempts>>

\* /bulk-save was rejected or answered with an error status.
BulkSaveFail(msg) ==
    /\ bulkPc = "saving"
    /\ error' = msg
    /\ isBulkSaving' = FALSE
    /\ bulkPc' = "idle"
    /\ lastOp' = Op("bulkSaveFail", "", "")
    /\ lastDecision' = NoDecision
    /\ UNCHANGED <<cloudFrame, uploadProgress, cloudStorageRecords,
                   cloudUploads, cloudTimers, cloudAttempts>>

\* What /cloud-storage can answer: the records uploaded from this page, or
\* a body without records (data.records || []).
CloudListings == {cloudStorageRecords, <<>>}

\* loadCloudStorageRecords returned (loaded: the answer was ok and the list
\* was replaced), and bulkSaveToCloud runs to its end.
BulkSaveRefreshed(loaded, records) ==
    /\ bulkPc \in {"refreshingSaved", "refreshingNone"}
    /\ cloudStorageRecords' = IF loaded THEN records ELSE cloudStorageRecords
    /\ error' = IF bulkPc = "refreshingSaved" THEN MsgBulkSaved ELSE MsgBulkNone
    /\ cloudTimers' =
          IF bulkPc = "refreshingSaved"
          THEN cloudTimers \cup {[kind |-> "error", attempt |-> 0, id |-> ""]}
          ELSE cloudTimers
    /\ isBulkSaving' = FALSE
    /\ bulkPc' = "idle"
    /\ lastOp' = Op("bulkSaveDone", "", "")
    /\ lastDecision' = NoDecision
    /\ UNCHANGED <<cloudFrame, uploadProgress, cloudUploads, cloudAttempts>>

InitCloudStorage ==
    /\ Init
    /\ variant = "part_001"

\* A session of part_001 in which one image with GPS data is uploaded,
\* classified, sent to the cloud (again after a failure) and removed.
NextCloud ==
    \/ \E fs \in FileLists :
          /\ Len(imageResults) + Len(fs) <= MaxCloudRecords
          /\ \A k \in DOMAIN fs : fs[k].image /\ fs[k].gps
          /\ HandleFileUpload(fs)
    \/ LoadModelOk
    \/ LoadModelFail
    \/ \E id \in Urls : ProcessFile(TRUE, TRUE, id)
    \/ \E i \in 1..MaxUrls : ClickRemove(i)
    \/ ClearAllResults
    \/ \E i \in 1..MaxUrls : UploadImageToCloud(i)
    \/ \E call \in cloudUploads : CloudUploadOk(call)
    \/ \E call \in cloudUploads, msg \in {MsgUploadStatus, MsgUploadDown} :
          CloudUploadFail(call, msg)
    \/ \E timer \in cloudTimers : TimerFires(timer)

SpecCloud == InitCloudStorage /\ [][NextCloud]_vars

\* A session of part_001 in which images with GPS data are uploaded, pairs
\* are found and resolved, records are removed, and approved images are
\* saved in bulk.
NextBulk ==
    \/ \E fs \in FileLists :
          /\ Len(imageResults) + Len(fs) <= MaxBulkRecords
          /\ \A k \in DOMAIN fs : fs[k].image /\ fs[k].gps
          /\ HandleFileUpload(fs)
    \/ LoadModelOk
    \/ LoadModelFail
    \/ \E id \in Urls : ProcessFile(TRUE, TRUE, id)
    \/ \E data \in ResponseBodies(backendIds) : ProximityOk(data)
    \/ ProximityFail(MsgBackendStatus)
    \/ \E i \in 1..MaxUrls : ClickRemove(i)
    \/ ClearAllResults
    \/ \E i \in 1..MaxPairs, a \in Actions : HandleDuplicateAction(i, a)
    \/ \E req \in pending : SaveDecisionOk(req)
    \/ \E req \in pending : SaveDecisionFail(req, MsgDecisionStatus)
    \/ BulkSaveToCloud
    \/ \E saved \in BOOLEAN : BulkSaveOk(saved)
    \/ \E msg \in {MsgBulkStatus, MsgBulkDown} : BulkSaveFail(msg)
    \/ \E loaded \in BOOLEAN, records \in CloudListings :
          BulkSaveRefreshed(loaded, records)

SpecBulk == InitCloudStorage /\ [][NextBulk]_vars

\* ------------------------------------------------- one card of the grid
\* A prediction is a class name and a probability, kept in tenths.
ClassNames == {"mango_tree", "not_mango_tree", "background"}
ProbabilityTenths == {1, 4, 5, 6, 9}
Predictions == [className : ClassNames, probability : ProbabilityTenths]

\* What classifyImage returns for an image: two or three predictions of
\* different classes, in the order of the model's labels (Teachable
\* Machine, the mock model) or of the backend's answer (MobileNet), with
\* probabilities that add up to one at most.
PredictionLists ==
    {s \in UNION {[1..n -> Predictions] : n \in 2..3} :
        /\ \A i, j \in DOMAIN s : i # j => s[i].className # s[j].className
        /\ (IF Len(s) = 2 THEN s[1].probability + s[2].probability
            ELSE s[1].probability + s[2].probability + s[3].probability)
              <= ProbabilityOne}

\* p.className.toLowerCase().includes('mango')
IncludesMango(className) == className \in {"mango_tree", "not_mango_tree"}

\* The test of the find call: App.js and part_001 look for 'mango' in the
\* class name, part_000 for the class name 'mango_tree'.
IsMangoTreePrediction(p) ==
    IF variant = "part_000" THEN p.className = "mango_tree"
    ELSE IncludesMango(p.className)

\* result.predictions.find(...): the index of the first match, 0 for none
FindMangoTreePrediction(preds) ==
    IF \E i \in DOMAIN preds : IsMangoTreePrediction(preds[i])
    THEN CHOOSE i \in DOMAIN preds :
            /\ IsMangoTreePrediction(preds[i])
            /\ \A j \in 1..(i - 1) : ~IsMangoTreePrediction(preds[j])
    ELSE 0

\* isMangoDetected, and the filter of the mango count:
\* mangoTreePrediction && mangoTreePrediction.probability > 0.5
IsMangoDetected(preds) ==
    /\ FindMangoTreePrediction(preds) # 0
    /\ preds[FindMangoTreePrediction(preds)].probability > MangoThreshold

\* The comparator of the predictions list in App.js and part_001.
ComparePredictionsApp(a, b) ==
    IF IncludesMango(a.className) THEN -1
    ELSE IF IncludesMango(b.className) THEN 1
    ELSE b.probability - a.probability

\* The comparator of part_000: mango_tree, not_mango_tree, then the others
\* by probability.
GetPriority(pred) ==
    IF pred.className = "mango_tree" THEN 1
    ELSE IF pred.className = "not_mango_tree" THEN 2
    ELSE 3

ComparePredictions000(a, b) ==
    IF GetPriority(a) # GetPriority(b) THEN GetPriority(a) - GetPriority(b)
    ELSE b.probability - a.probability

ComparePredictions(a, b) ==
    IF variant = "part_000" THEN ComparePredictions000(a, b)
    ELSE ComparePredictionsApp(a, b)

\* Array.prototype.sort sorts the array it is called on.  With a consistent
\* comparator the outcome is the stable sort; with a comparator that is
\* not consistent on the elements (both orders of two 'mango' classes
\* give -1) the order is implementation-defined: any permutation.
SignOf(n) == IF n < 0 THEN -1 ELSE IF n > 0 THEN 1 ELSE 0

IsConsistentComparator(preds) ==
    \A i, j \in DOMAIN preds :
        SignOf(ComparePredictions(preds[i], preds[j]))
            = -SignOf(ComparePredictions(preds[j], preds[i]))

RECURSIVE InsertPrediction(_, _)
InsertPrediction(sorted, x) ==
    IF sorted = <<>> THEN <<x>>
    ELSE IF ComparePredictions(sorted[Len(sorted)], x) > 0
    THEN Append(InsertPrediction(SubSeq(sorted, 1, Len(sorted) - 1), x),
                sorted[Len(sorted)])
    ELSE Append(sorted, x)

RECURSIVE StableSort(_)
StableSort(preds) ==
    IF preds = <<>> THEN <<>>
    ELSE InsertPrediction(StableSort(SubSeq(preds, 1, Len(preds) - 1)),
                          preds[Len(preds)])

Orderings(preds) ==
    {[i \in DOMAIN preds |-> preds[f[i]]] :
        f \in {g \in [DOMAIN preds -> DOMAIN preds] :
                  \A i, j \in DOMAIN preds : i # j => g[i] # g[j]}}

\* result.predictions.sort(...): what the stored list can be afterwards
SortOutcomes(preds) ==
    IF IsConsistentComparator(preds) THEN {StableSort(preds)}
    ELSE Orderings(preds)

\* The card of a record whose predictions classifyImage has just returned.
InitCard ==
    /\ InitComponent
    /\ exif = NoExif
    /\ gps = Pending
    /\ InitCloud
    /\ classified \in PredictionLists
    /\ resultPredictions = classified
    /\ badge = "unrendered"

\* One render of the card: the badge is computed, then the predictions are
\* sorted for display.
RenderCard ==
    /\ resultPredictions # <<>>
    /\ badge' = IF IsMangoDetected(resultPredictions) THEN "mango" ELSE "plain"
    /\ resultPredictions' \in SortOutcomes(resultPredictions)
    /\ UNCHANGED <<classified, exif, gps, componentVars, cloudVars>>

NextCard == RenderCard

SpecCard == InitCard /\ [][NextCard]_vars

\* ------------------------------------------- extractGPSFromExif on its own
\* The variables of the component, which the extraction does not touch.
\* A file with any combination of the four GPS tags is handed over.
InitExif ==
    /\ InitComponent
    /\ exif \in ExifFiles
    /\ gps = Pending
    /\ InitRender
    /\ InitCloud

\* The callback of EXIF.getData runs and settles the promise.
ExtractGPSFromExif ==
    /\ gps = Pending
    /\ gps' = GPSFromExif(exif)
    /\ UNCHANGED <<exif, componentVars, renderVars, cloudVars>>

NextExif == ExtractGPSFromExif

SpecExif == InitExif /\ [][NextExif]_vars

\* ===================================================================
\* Properties
\* ===================================================================
Range(seq) == {seq[i] : i \in DOMAIN seq}

CreatedUrls == 1..(nextUrl - 1)

\* after is before restricted to the positions K, in the same order.
Rank(K, i) == Cardinality({j \in K : j <= i})
IsRestriction(before, after, K) ==
    /\ Len(after) = Cardinality(K)
    /\ \A i \in K : after[Rank(K, i)] = before[i]

RecordsWithout(id) ==
    {i \in DOMAIN imageResults : String(imageResults[i].id) # id}

PairsNotReferencing(id) ==
    {i \in DOMAIN duplicatePairs :
        duplicatePairs[i].imageId1 # id /\ duplicatePairs[i].imageId2 # id}

PairsOtherThan(pairId) ==
    {i \in DOMAIN duplicatePairs : duplicatePairs[i].pairId # pairId}

\* The request a decisionOk / decisionFail step answers.
Answered(req) == req \in pending /\ pending' = pending \ {req}

\* A URL that can still be released: a record of the store carries it, or a
\* record of the batch being classified by a running upload does.
Held(u) ==
    \/ \E i \in DOMAIN imageResults : imageResults[i].imageUrl = u
    \/ pc = "files" /\ \E i \in DOMAIN newResults : newResults[i].imageUrl = u

\* C1: every preview URL created by handleFileUpload is released exactly
\* once: none is released twice, and none is left that nothing can release
\* any more (a created URL not yet released is carried by a record of the
\* store or of the batch being classified).
C1_EveryUrlReleasedExactlyOnce ==
    \A u \in CreatedUrls :
        /\ revoked[u] <= 1
        /\ revoked[u] = 0 => Held(u)

\* C2: clearAllResults leaves the record list and the pair list empty and
\* releases the preview URL of every record of the store exactly once, and
\* no other URL.
C2_ClearEmptiesAndReleasesOnce ==
    [][lastOp'.op = "clear" =>
        /\ imageResults' = <<>>
        /\ duplicatePairs' = <<>>
        /\ \A u \in Urls :
              IF \E i \in DOMAIN imageResults : imageResults[i].imageUrl = u
              THEN revoked[u] = 0 /\ revoked'[u] = 1
              ELSE revoked'[u] = revoked[u]]_vars

C2_Witness ==
    /\ lastOp.op = "clear"
    /\ nextUrl = 3
    /\ revoked[1] = 1 /\ revoked[2] = 1
    /\ isCheckingDuplicates

\* C3: removeImageResult(id) removes exactly the records whose
\* String(id) equals the identifier, keeping the others in order; called
\* from the X button it also drops exactly the pairs whose imageId1 or
\* imageId2 equals it; when no record has the identifier the store is
\* unchanged and no URL is released.
C3_RemoveExactlyThatRecord ==
    [][(lastOp'.op \in {"remove", "decisionOk"} /\ lastOp'.id # "") =>
        /\ IsRestriction(imageResults, imageResults', RecordsWithout(lastOp'.id))
        /\ lastOp'.op = "remove" =>
              IsRestriction(duplicatePairs, duplicatePairs',
                            PairsNotReferencing(lastOp'.id))
        /\ RecordsWithout(lastOp'.id) = DOMAIN imageResults =>
              imageResults' = imageResults /\ revoked' = revoked]_vars

C3_Witness ==
    /\ lastOp.op = "remove"
    /\ lastOp.id = "2"
    /\ Len(imageResults) = 2
    /\ Len(duplicatePairs) = 1
    /\ duplicatePairs[1].imageId1 = "1" /\ duplicatePairs[1].imageId2 = "3"
    /\ revoked[1] + revoked[2] + revoked[3] = 1

\* C4: handleDuplicateAction changes neither the pair list nor the store
\* (nor releases a URL) when it sends /save-decision and when the request
\* fails; only the step that receives the OK answer may.
C4_NoMutationBeforeSuccess ==
    [][lastOp'.op \in {"decide", "decisionFail"} =>
        /\ imageResults' = imageResults
        /\ duplicatePairs' = duplicatePairs
        /\ revoked' = revoked]_vars

C4_Witness ==
    /\ lastOp.op = "decisionFail"
    /\ lastOp.action = "keep_first_remove_second"
    /\ Len(duplicatePairs) > 0
    /\ PairRendered(duplicatePairs[1])

\* C5: a successful keep-one resolution removes the pair and the record
\* named for removal (imageId2 for keep_first_remove_second, imageId1 for
\* remove_first_keep_second); every other record, the other record of the
\* pair among them, stays in order, and so does every pair that neither
\* references the removed record nor has the resolved pairId.
C5_KeepOneRemovesNamedRecord ==
    [][\A req \in pending :
        (lastOp'.op = "decisionOk" /\ Answered(req) /\ req.action # "save_both") =>
            LET gone == IF req.action = "keep_first_remove_second"
                        THEN req.imageId2 ELSE req.imageId1
                kept == IF req.action = "keep_first_remove_second"
                        THEN req.imageId1 ELSE req.imageId2
            IN
            /\ IsRestriction(imageResults, imageResults', RecordsWithout(gone))
            /\ \A i \in DOMAIN imageResults :
                  String(imageResults[i].id) = kept =>
                      imageResults[i] \in Range(imageResults')
            /\ IsRestriction(duplicatePairs, duplicatePairs',
                   PairsOtherThan(req.pairId) \cap PairsNotReferencing(gone))]_vars

C5_Witness ==
    /\ lastOp.op = "decisionOk"
    /\ lastOp.action = "keep_first_remove_second"
    /\ lastOp.id = "2"
    /\ Len(imageResults) = 2
    /\ imageResults[1].id = 1 /\ imageResults[2].id = 3
    /\ revoked[2] = 1
    /\ Len(duplicatePairs) = 1
    /\ duplicatePairs[1].imageId1 = "1" /\ duplicatePairs[1].imageId2 = "3"

\* C6: a successful save_both resolution removes the pairs with the
\* resolved pairId and nothing else: the other pairs stay in order, the
\* store is unchanged and no URL is released.
C6_SaveBothRemovesOnlyThePair ==
    [][\A req \in pending :
        (lastOp'.op = "decisionOk" /\ Answered(req) /\ req.action = "save_both") =>
            /\ imageResults' = imageResults
            /\ revoked' = revoked
            /\ IsRestriction(duplicatePairs, duplicatePairs',
                             PairsOtherThan(req.pairId))]_vars

C6_Witness ==
    /\ lastOp.op = "decisionOk"
    /\ lastOp.action = "save_both"
    /\ Len(imageResults) = 3
    /\ Len(duplicatePairs) = 1
    /\ PairRendered(duplicatePairs[1])

\* C7: a pair leaves the pair list only when it is resolved, when a record
\* it references is removed, or on clear.
C7_PairLeavesOnlyByResolutionOrRemoval ==
    [][\A p \in Range(duplicatePairs) :
        p \notin Range(duplicatePairs') =>
            \/ lastOp'.op = "clear"
            \/ lastOp'.op = "decisionOk"
            \/ lastOp'.op = "remove" /\ lastOp'.id \in {p.imageId1, p.imageId2}]_vars

\* C8: when /check-proximity succeeds the pair list becomes exactly the
\* candidate pairs of the response body, none when the body has no
\* similar_pairs field.
C8_PairListIsTheResponse ==
    [][\A data \in ResponseBodies(backendIds) :
        ProximityOk(data) => duplicatePairs' = data.similar_pairs]_vars

\* C9: when /check-proximity fails the pair list and the record store are
\* left as they were: the batch stays appended, the prior pairs stay.
C9_ProximityFailureLeavesState ==
    [][lastOp'.op = "proximityFail" =>
        /\ imageResults' = imageResults
        /\ duplicatePairs' = duplicatePairs
        /\ revoked' = revoked]_vars

C9_Witness ==
    /\ lastOp.op = "proximityFail"
    /\ Len(duplicatePairs) > 0
    /\ Len(imageResults) = 3
    /\ imageResults[3].location

\* C10: every failure of /check-proximity or /save-decision leaves a
\* message in the error state.
C10_FailureIsSurfaced ==
    lastOp.op \in {"proximityFail", "decisionFail"} => error # ""

\* The files of a selection that are images and carry the four GPS tags,
\* and those that are images.
GpsFiles(fs) == {i \in DOMAIN fs : fs[i].image /\ fs[i].gps}
ImageFiles(fs) == {i \in DOMAIN fs : fs[i].image}

\* The records of the batch in flight that carry coordinates.
Located(results) == {i \in DOMAIN results : results[i].location}

\* C11 as stated: for a batch of N files of which M (<N) carry GPS data
\* the /check-proximity body has exactly M location entries.
C11_OneEntryPerGpsFile ==
    (pc = "proximity" /\ Cardinality(GpsFiles(selected)) < Len(selected)) =>
        Len(request) = Cardinality(GpsFiles(selected))

\* C11 amended: the /check-proximity body has one entry per record of the
\* batch that carries coordinates, in batch order and under that record's
\* identifier: at most one per GPS-carrying file of the selection, never
\* one for a file without GPS data, and exactly one per GPS-carrying file
\* when every image of the selection was classified.
C11_OneEntryPerLocatedRecord ==
    pc = "proximity" =>
        /\ Len(request) > 0
        /\ IsRestriction([i \in DOMAIN newResults |-> String(newResults[i].id)],
                         request, Located(newResults))
        /\ Len(request) <= Cardinality(GpsFiles(selected))
        /\ Len(newResults) - Len(request)
              <= Cardinality(ImageFiles(selected) \ GpsFiles(selected))
        /\ Len(newResults) = Cardinality(ImageFiles(selected)) =>
              Len(request) = Cardinality(GpsFiles(selected))

C11_Witness ==
    /\ pc = "proximity"
    /\ Len(selected) = 3
    /\ Cardinality(GpsFiles(selected)) = 2
    /\ Len(newResults) = 3
    /\ Len(request) = 2

\* The records the step appends to the store.
Appended ==
    [i \in 1..(Len(imageResults') - Len(imageResults)) |->
        imageResults'[Len(imageResults) + i]]

\* C12: when the loop of an upload ends with no record that carries
\* coordinates (none at all included), no /check-proximity request is
\* posted, the pair list stays as it is and isCheckingDuplicates stays
\* false; the flag is raised only together with a request for a batch that
\* has a record with coordinates.
C12_NoRequestWithoutCoordinates ==
    [][/\ (pc = "files" /\ pc' # "files" /\ Located(Appended) = {}) =>
            /\ pc' # "proximity"
            /\ request' = <<>>
            /\ backendIds' = backendIds
            /\ duplicatePairs' = duplicatePairs
            /\ ~isCheckingDuplicates'
       /\ (~isCheckingDuplicates /\ isCheckingDuplicates') =>
            /\ Located(Appended) # {}
            /\ request' # <<>>]_vars

C12_Witness ==
    /\ lastOp.op = "file"
    /\ pc = "idle"
    /\ ~isCheckingDuplicates
    /\ Len(duplicatePairs) > 0
    /\ Len(imageResults) = 3
    /\ imageResults[3].imageUrl = 3
    /\ ~imageResults[3].location

\* C13: a decode or classification failure of one image skips that image
\* only: the upload goes on to the next file of the selection, and the
\* records already made for the batch stay in the batch (or reach the
\* store) on every iteration of the loop.
C13_FailureSkipsOnlyThatImage ==
    [][(pc = "files" /\ lastOp'.op = "file") =>
        /\ pc' # "hung"
        /\ Tail(files) # <<>> => (pc' = "files" /\ files' = Tail(files))
        /\ \A r \in Range(newResults) :
              r \in Range(newResults') \cup Range(imageResults')]_vars

\* The tags of the four that the file carries.
GpsTagNames == {"GPSLatitude", "GPSLongitude", "GPSLatitudeRef", "GPSLongitudeRef"}
PresentTags(tags) == {t \in GpsTagNames : tags[t] # Undefined}

\* C14: extractGPSFromExif never rejects; it resolves to null for every
\* file that lacks at least one of the four GPS tags and to coordinates
\* only for a file that carries all four.
C14_NullUnlessAllFourTags ==
    gps # Pending =>
        /\ gps.settled = "resolved"
        /\ IF PresentTags(exif) = GpsTagNames
           THEN ~gps.value.null
           ELSE gps.value = Null

C14_Witness ==
    /\ gps.settled = "resolved"
    /\ gps.value = Null
    /\ PresentTags(exif) = GpsTagNames \ {"GPSLongitudeRef"}

\* Degrees, minutes and seconds in arc-seconds, and the sign of a direction.
ArcSeconds(dms) == SecondsPerDegree * dms[1] + SecondsPerMinute * dms[2] + dms[3]
Sign(ref) == IF ref \in {"S", "W"} THEN -1 ELSE 1
IsDegreesOf(dd, dms, ref) ==
    /\ dd.den > 0
    /\ SecondsPerDegree % dd.den = 0
    /\ dd.num * (SecondsPerDegree \div dd.den) = Sign(ref) * ArcSeconds(dms)

\* C15: convertDMSToDD returns d + m/60 + s/3600, negated exactly for the
\* directions "S" and "W" and never for "N" and "E" (in arc-seconds:
\* 3600 * result = +/-(3600d + 60m + s)); 10 30' 0" is 10.5 for "N" and
\* -10.5 for "S".
C15_DegreesNegatedForSouthAndWest ==
    (gps.settled = "resolved" /\ ~gps.value.null) =>
        /\ IsDegreesOf(gps.value.latitude, exif.GPSLatitude.value,
                       exif.GPSLatitudeRef.value)
        /\ IsDegreesOf(gps.value.longitude, exif.GPSLongitude.value,
                       exif.GPSLongitudeRef.value)
        /\ exif.GPSLatitude.value = <<10, 30, 0>> =>
              gps.value.latitude =
                 IF exif.GPSLatitudeRef.value \in {"S", "W"}
                 THEN [num |-> -21, den |-> 2] ELSE [num |-> 21, den |-> 2]

C15_Witness ==
    /\ gps.settled = "resolved"
    /\ ~gps.value.null
    /\ exif.GPSLatitude.value = <<10, 30, 0>>
    /\ exif.GPSLatitudeRef.value = "S"
    /\ gps.value.latitude = [num |-> -21, den |-> 2]
    /\ exif.GPSLongitude.value = <<179, 59, 59>>
    /\ exif.GPSLongitudeRef.value = "E"
    /\ gps.value.longitude.num > 0

\* C16: when tmImage.load is rejected during an upload the failure is
\* reported and the upload either returns without adding a record or goes
\* on with the fallback classifier; an error message is still displayed
\* when that upload finishes.  (The alert of part_000, which has no error
\* state, is the report of its loadFail step.)
C16_LoadFailureReportStays ==
    [][/\ (pc = "loading" /\ lastOp'.op = "loadFail") =>
            \/ /\ pc' = "idle"
               /\ imageResults' = imageResults
               /\ HasErrorState => error' # ""
            \/ /\ pc' = "files"
               /\ loadedModel' = "mock"
               /\ error' # ""
       /\ (loadFailed /\ pc \in {"files", "proximity"} /\ pc' = "idle") =>
            error' # ""]_vars

\* C17 as stated: after one successful tmImage.load no later upload calls
\* tmImage.load again.
C17_ModelLoadedAtMostOnce ==
    [][everLoaded => ~(pc # "loading" /\ pc' = "loading")]_vars

\* C17 amended: the loaded model is memoized until the model type is
\* switched: while it is set no upload calls tmImage.load, and only
\* handleModelTypeChange unsets it.
C17_ModelLoadedOncePerSelection ==
    [][/\ model = "real" => ~(pc # "loading" /\ pc' = "loading")
       /\ (model = "real" /\ model' # "real") => lastOp'.op = "modelType"
       /\ (pc # "loading" /\ pc' = "loading") =>
             (model = "null" /\ modelType = "teachable_machine")]_vars

C17_Witness ==
    /\ everLoaded
    /\ model = "real"
    /\ lastOp.op = "upload"
    /\ pc = "files"
    /\ Len(imageResults) > 0

\* C18: storage order is insertion order and upload order.  Blob URLs are
\* created one per image file, in the order the files are iterated, so the
\* order of the imageUrl values is the order of the files over all
\* selections.  A step of an upload keeps the store as a prefix of the new
\* store, the records it appends are in the order of their files and come
\* from files later than every record already stored, and after every step
\* the store is in file order.
C18_StorageOrderIsUploadOrder ==
    [][/\ lastOp'.op = "file" =>
            /\ Len(imageResults') >= Len(imageResults)
            /\ \A i \in DOMAIN imageResults : imageResults'[i] = imageResults[i]
            /\ \A i, j \in DOMAIN Appended :
                  i < j => Appended[i].imageUrl < Appended[j].imageUrl
            /\ \A i \in DOMAIN imageResults, j \in DOMAIN Appended :
                  imageResults[i].imageUrl < Appended[j].imageUrl
       /\ \A i, j \in DOMAIN imageResults' :
             i < j => imageResults'[i].imageUrl < imageResults'[j].imageUrl]_vars

C18_Witness ==
    /\ lastOp.op = "file"
    /\ pc = "proximity"
    /\ Len(imageResults) = 3
    /\ Len(newResults) = 2
    /\ imageResults[2] = newResults[1]
    /\ imageResults[3] = newResults[2]

\* The identifier names a record of the store, compared as strings.
Resolves(imageId) ==
    \E r \in Range(imageResults) : String(r.id) = imageId

Dangling(pair) == ~Resolves(pair.imageId1) \/ ~Resolves(pair.imageId2)

\* C19: a pair has its resolution buttons only when both of its
\* identifiers name records of the store: every click on a button is on a
\* pair of the list whose two records are there, so a pair with a dangling
\* reference starts no request, and it stays in the list with store and
\* error message untouched.
C19_ButtonsOnlyForResolvablePairs ==
    [][lastOp'.op = "decide" =>
        /\ \A req \in pending' \ pending :
              /\ Resolves(req.imageId1) /\ Resolves(req.imageId2)
              /\ \E p \in Range(duplicatePairs) :
                    /\ p.pairId = req.pairId
                    /\ p.imageId1 = req.imageId1 /\ p.imageId2 = req.imageId2
        /\ \A req \in pending' : ~Resolves(req.imageId1) => req \in pending
        /\ duplicatePairs' = duplicatePairs
        /\ imageResults' = imageResults
        /\ error' = error]_vars

C19_Witness ==
    /\ lastOp.op = "decide"
    /\ \E p \in Range(duplicatePairs) : Dangling(p)
    /\ \E req \in pending : \E p \in Range(duplicatePairs) :
          p.pairId = req.pairId /\ ~Dangling(p)

\* The instant a record was created, as far as the order goes: the reading
\* of the clock kept in its identifier.
CreatedAt(r) == r.id

\* C20: the cards are displayed most recent first: of two displayed
\* records the one created later comes before the one created earlier.
C20_DisplayedMostRecentFirst ==
    \A i, j \in DOMAIN Displayed :
        i < j => CreatedAt(Displayed[i]) >= CreatedAt(Displayed[j])

\* C21: record identifiers are unique: no two records of the store have
\* the same String(id).
C21_IdentifiersAreUnique ==
    \A i, j \in DOMAIN imageResults :
        i # j => String(imageResults[i].id) # String(imageResults[j].id)

\* C23: every pair of the pair list names two records that are in the
\* store.
C23_NoDanglingPair ==
    \A p \in Range(duplicatePairs) : ~Dangling(p)

\* C24: resolution removes at most one of the two records of a pair.  Two
\* answers in a row: when the last continuation was a successful
\* /save-decision of a pair and removed a record, a successful answer to
\* another request for the same pair leaves the record store as it is.
C24_OneResolutionPerPair ==
    [][\A req \in pending :
          (/\ lastOp'.op = "decisionOk"
           /\ Answered(req)
           /\ lastDecision.removed
           /\ lastDecision.pairId = req.pairId
           /\ lastDecision.imageId1 = req.imageId1
           /\ lastDecision.imageId2 = req.imageId2)
          => imageResults' = imageResults]_vars

\* C25: every started upload finishes with isProcessing reset.  As a
\* property of single states: while isProcessing is set, the upload waits
\* for something that will be answered (the model, a file of the
\* selection, the proximity response); it is never left with nothing that
\* can resume it.
C25_UploadNeverStuck ==
    isProcessing => pc \in {"loading", "files", "proximity"}

\* C26: at most one upload batch is in flight and the model type does not
\* change under it: an upload or a model-type switch starts only when
\* isProcessing and isModelLoading are both false, isProcessing is set for
\* as long as the one handleFileUpload call has not returned, and
\* isModelLoading only while isProcessing.
C26_OneBatchAtATime ==
    [][/\ lastOp'.op \in {"upload", "modelType"} =>
            /\ ~isProcessing
            /\ ~isModelLoading
            /\ pc = "idle"
       /\ isProcessing' <=> pc' # "idle"
       /\ isModelLoading' => isProcessing'
       /\ (isProcessing /\ isProcessing') => modelType' = modelType]_vars

C26_Witness ==
    /\ lastOp.op = "modelType"
    /\ modelType = "mobilenet"
    /\ Len(imageResults) > 0
    /\ ~isProcessing

\* C27: whenever a batch was classified by the fallback classifier and
\* gave records, the model-load failure message is displayed when that
\* batch finishes.
C27_FallbackAlwaysAnnounced ==
    [][(/\ loadedModel = "mock"
        /\ pc' = "idle"
        /\ \/ pc = "files" /\ Len(Appended) > 0
           \/ pc = "proximity" /\ Len(newResults) > 0)
       => error' = MsgFallback]_vars

\* C28: rendering is read-only on the record: the stored prediction list
\* stays in the order the classifier returned it.
C28_RenderKeepsStoredOrder ==
    resultPredictions = classified

\* The record has a mango_tree prediction above one half.
MangoTreeAboveHalf(preds) ==
    \E p \in Range(preds) :
        p.className = "mango_tree" /\ p.probability > MangoThreshold

\* C29: a record is badged (and counted) as a mango tree exactly when its
\* mango_tree prediction has a probability above 0.5, whatever the order
\* of its predictions.
C29_BadgeIffMangoTreeAboveHalf ==
    badge # "unrendered" =>
        (badge = "mango" <=> MangoTreeAboveHalf(classified))

\* C22: in part_001 a bulk save starts only from a state with an empty pair
\* list and no bulk save running, so at most one bulkSaveToCloud call is in
\* progress and /bulk-save is never posted while a pair is in the list.
C22_BulkSaveOnlyWithoutPairs ==
    [][/\ (bulkPc = "idle" /\ bulkPc' # "idle") =>
            /\ Len(duplicatePairs) = 0
            /\ ~isBulkSaving
            /\ bulkPc' = "saving"
            /\ Len(duplicatePairs') = 0
       /\ (bulkPc' = "saving" /\ bulkPc # "saving") => bulkPc = "idle"
       /\ isBulkSaving' <=> bulkPc' # "idle"]_vars

\* A bulk save started with records in the grid whose locations the
\* backend has compared, and with no pair left in the list.
C22_Witness ==
    /\ lastOp.op = "bulkSave"
    /\ isBulkSaving
    /\ bulkPc = "saving"
    /\ Len(duplicatePairs) = 0
    /\ Len(imageResults) = MaxBulkRecords
    /\ backendIds # {}

\* The calls of uploadImageToCloud in flight for the record id.
UploadsInFlight(id) == {call \in cloudUploads : call.id = id}

\* C30: while an upload of a record is in flight its status is 'uploading',
\* at most one /upload-image request per record is in flight, and a record
\* is in the cloud records at most once.
C30_OneCloudUploadPerRecord ==
    /\ \A call \in cloudUploads :
          /\ StatusOf(uploadProgress, call.id) = "uploading"
          /\ Cardinality(UploadsInFlight(call.id)) = 1
    /\ \A i, j \in DOMAIN cloudStorageRecords :
          i # j => cloudStorageRecords[i] # cloudStorageRecords[j]

====
